---- MODULE Spec2Model ----
(***************************************************************************)
(* Model of unify_tkk_ids.py: the unification of TKK group ids between a   *)
(* JSON textcritics document and the SVG files of a folder.                *)
(*                                                                         *)
(* Strings are sequences of symbols.  A symbol stands for a fixed piece of *)
(* text ("M", "_", "Sk", "Textfassung", a digit, ...), chosen so that the  *)
(* literals of the program's regular expressions and substring tests fall  *)
(* on symbol borders.  SVG text is a sequence of markup tokens: "<", ">",  *)
(* an id attribute, a class attribute (each with its quote character and   *)
(* its value) and runs of other characters.                                *)
(***************************************************************************)
EXTENDS Naturals, Sequences, FiniteSets, TLC

VARIABLES
  \* update_svg_id applied to drawn arguments (SpecRewrite)
  svg_content, old_val, new_val, rw_pc, rw_first, rw_back,
  \* the entry at hand: its id, its number, the listing, its relevant files
  new_id, current_main_number, all_svg_files, relevant_svgs_for_block, fl_pc,
  \* the files: the JSON document and the SVG folder (name and text of each
  \* file), and what is found at the two paths
  json_file, svg_folder, paths,
  \* process_tkk_ids: the loaded document, the SVG dicts created by
  \* get_svg_text, the two caches (file name -> dict), the rename map of the
  \* entry, and the position in the loops
  data, svg_objs, loaded_svg_texts, final_svg_cache, id_mapping,
  pc, entry_idx, block_idx,
  \* what was observed: the number of the run, the block lines printed in it,
  \* the reports of display_uncertainties, the files as the run found them
  run, out, reports, before

rwVars == <<svg_content, old_val, new_val, rw_pc, rw_first, rw_back>>
flVars == <<new_id, current_main_number, all_svg_files, relevant_svgs_for_block, fl_pc>>
fileVars == <<json_file, svg_folder, paths>>
runVars == <<data, svg_objs, loaded_svg_texts, final_svg_cache, id_mapping,
             pc, entry_idx, block_idx>>
obsVars == <<run, out, reports, before>>
vars == <<svg_content, old_val, new_val, rw_pc, rw_first, rw_back,
          new_id, current_main_number, all_svg_files, relevant_svgs_for_block, fl_pc,
          json_file, svg_folder, paths,
          data, svg_objs, loaded_svg_texts, final_svg_cache, id_mapping,
          pc, entry_idx, block_idx,
          run, out, reports, before>>

----------------------------------------------------------------------------
(* Bounds of the model *)

\* elements per SVG text drawn for update_svg_id
MaxElems == 2
\* file names in the listing drawn for get_relevant_svgs
MaxListed == 2
\* blocks of one entry of the JSON document
MaxBlocks == 2
\* tkk elements and the like in the first SVG file of the folder
MaxTags == 2
\* runs of process_tkk_ids over the same files
MaxRuns == 2

----------------------------------------------------------------------------
(* Generic helpers *)

Min(S) == CHOOSE x \in S : \A y \in S : x <= y

RECURSIVE SumSeq(_)
SumSeq(s) == IF s = <<>> THEN 0 ELSE Head(s) + SumSeq(Tail(s))

RECURSIVE Concat(_)
Concat(ss) == IF ss = <<>> THEN <<>> ELSE Head(ss) \o Concat(Tail(ss))

\* all sequences over S of length 0..n
SeqUpTo(S, n) == UNION {[1..m -> S] : m \in 0..n}

StartsWith(s, p) == Len(s) >= Len(p) /\ SubSeq(s, 1, Len(p)) = p

----------------------------------------------------------------------------
(* SVG text as markup tokens *)

LT == [k |-> "lt", q |-> "-", v |-> <<>>]
GT == [k |-> "gt", q |-> "-", v |-> <<>>]
Txt(s) == [k |-> "txt", q |-> "-", v |-> <<s>>]
\* id="val" (q = "d") or id='val' (q = "s")
IdAttr(q, val) == [k |-> "id", q |-> q, v |-> val]
\* class="val" or class='val'
ClassAttr(q, val) == [k |-> "class", q |-> q, v |-> val]

Quotes == {"d", "s"}
tkk == <<"tkk">>
\* the capture group ([^"']+) of tkk_id_regex: any non-empty value
AnyId == <<"[^\"']+">>

(* A tag pattern  <[^>]X first [^>]Y second ([^>]*?>)?  of the program:     *)
(*   first  : the attribute that comes first ("id" or "class")            *)
(*   q1, q2 : the quote characters accepted for the first / second one    *)
(*   lead   : 0 for <[^>]*? and 1 for <[^>]+? before the first attribute   *)
(*   gap    : 0 for [^>]*? and 1 for [^>]+? between the two attributes     *)
(*   close  : whether the pattern ends with [^>]*?>                        *)
TagPattern(first, q1, q2, lead, gap, close) ==
  [first |-> first, q1 |-> q1, q2 |-> q2, lead |-> lead, gap |-> gap, close |-> close]

\* mutant of AttrOk: the class value is not compared with tkk
AttrOk_AnyClass(tok, kind, qs, idv) ==
  /\ tok.k = kind
  /\ tok.q \in qs
  /\ kind = "id" => (IF idv = AnyId THEN tok.v # <<>> ELSE tok.v = idv)

AttrOk(tok, kind, qs, idv) ==
  /\ tok.k = kind
  /\ tok.q \in qs
  /\ IF kind = "class" THEN tok.v = tkk
     ELSE IF idv = AnyId THEN tok.v # <<>> ELSE tok.v = idv

\* position of the first ">" after position i, 0 if there is none
NextGt(text, i) ==
  LET later == {l \in (i+1)..Len(text) : text[l].k = "gt"}
  IN IF later = {} THEN 0 ELSE Min(later)

\* [^>] never matches ">": the attributes lie before the first ">" after i
Limit(text, i) == IF NextGt(text, i) = 0 THEN Len(text) + 1 ELSE NextGt(text, i)

Second(p) == IF p.first = "id" THEN "class" ELSE "id"

\* the positions <<j, k>> of the two attributes in a match of p that starts at i
AttrPairs(text, i, p, idv) ==
  {jk \in ((i + 1 + p.lead)..(Limit(text, i) - 1)) \X ((i + 1)..(Limit(text, i) - 1)) :
     /\ jk[2] >= jk[1] + 1 + p.gap
     /\ AttrOk(text[jk[1]], p.first, p.q1, idv)
     /\ AttrOk(text[jk[2]], Second(p), p.q2, idv)}

\* lazy quantifiers: the earliest first attribute, then the earliest second one
LeastPair(S) ==
  CHOOSE jk \in S : \A o \in S : jk[1] < o[1] \/ (jk[1] = o[1] /\ jk[2] <= o[2])

MatchesAt(text, i, p, idv) ==
  /\ text[i].k = "lt"
  /\ AttrPairs(text, i, p, idv) # {}
  /\ p.close => NextGt(text, i) # 0

\* last position of the match of p that starts at i
MatchEnd(text, i, p, idv) ==
  IF p.close THEN NextGt(text, i) ELSE LeastPair(AttrPairs(text, i, p, idv))[2]

\* the id the match captures
MatchId(text, i, p, idv) ==
  LET jk == LeastPair(AttrPairs(text, i, p, idv))
  IN IF p.first = "id" THEN text[jk[1]].v ELSE text[jk[2]].v

\* a regular expression is a sequence of alternatives  p1|p2|...
AltAt(text, i, regex, idv) ==
  LET ok == {a \in 1..Len(regex) : MatchesAt(text, i, regex[a], idv)}
  IN IF ok = {} THEN 0 ELSE Min(ok)

\* re.search(regex, text) is not None
re_search(regex, text, idv) ==
  \E i \in 1..Len(text) : AltAt(text, i, regex, idv) # 0

\* the non-overlapping matches of re.findall / re.sub, leftmost first, from pos on
RECURSIVE MatchesFrom(_, _, _, _)
MatchesFrom(text, pos, regex, idv) ==
  LET starts == {i \in pos..Len(text) : AltAt(text, i, regex, idv) # 0}
  IN IF starts = {} THEN <<>>
     ELSE LET i == Min(starts)
              p == regex[AltAt(text, i, regex, idv)]
              e == MatchEnd(text, i, p, idv)
          IN <<[s |-> i, e |-> e, id |-> MatchId(text, i, p, idv)]>>
               \o MatchesFrom(text, e + 1, regex, idv)

re_findall(regex, text, idv) == MatchesFrom(text, 1, regex, idv)

----------------------------------------------------------------------------
(* update_svg_id *)

NoError == [none |-> TRUE, id |-> <<>>, occurrences |-> 0]
\* "Multiple class='tkk' elements found with ID '<id>' (<n> occurrences)"
MultipleError(id, n) == [none |-> FALSE, id |-> id, occurrences |-> n]

\* the four patterns, in the order of the list
patterns ==
  << TagPattern("id", {"d"}, {"d"}, 0, 0, TRUE),
     TagPattern("class", {"d"}, {"d"}, 0, 0, TRUE),
     TagPattern("id", {"s"}, {"s"}, 0, 0, TRUE),
     TagPattern("class", {"s"}, {"s"}, 0, 0, TRUE) >>

\* mutant of replace_id: the new id is always written in double quotes
replace_id_DoubleQuoted(tok, old, new) ==
  IF tok.k = "id" /\ tok.v = old THEN IdAttr("d", new) ELSE tok

\* full_tag.replace('id="old"', 'id="new"').replace("id='old'", "id='new'")
replace_id(tok, old, new) ==
  IF tok.k = "id" /\ tok.v = old THEN IdAttr(tok.q, new) ELSE tok

\* re.sub(pattern, replace_id, content)
re_sub(p, content, old, new) ==
  LET ms == re_findall(<<p>>, content, old)
  IN [n \in 1..Len(content) |->
        IF \E m \in 1..Len(ms) : ms[m].s <= n /\ n <= ms[m].e
        THEN replace_id(content[n], old, new)
        ELSE content[n]]

RECURSIVE ApplyPatterns(_, _, _, _)
ApplyPatterns(ps, content, old, new) ==
  IF ps = <<>> THEN content
  ELSE ApplyPatterns(Tail(ps), re_sub(Head(ps), content, old, new), old, new)

total_tkk_matches(content, old) ==
  SumSeq([n \in 1..Len(patterns) |-> Len(re_findall(<<patterns[n]>>, content, old))])

update_svg_id(content, old, new) ==
  IF total_tkk_matches(content, old) > 1
  THEN [content |-> content, error |-> MultipleError(old, total_tkk_matches(content, old))]
  ELSE [content |-> ApplyPatterns(patterns, content, old, new), error |-> NoError]

----------------------------------------------------------------------------
(* Entry ids and file names as symbol strings *)

Digits == {"0", "1", "2", "3", "4", "5", "6", "7", "8", "9"}

Contains(s, sub) ==
  \E i \in 1..(Len(s) + 1 - Len(sub)) : SubSeq(s, i, i + Len(sub) - 1) = sub

\* greedy \d+ at position i: the last position of the digit run (i - 1 if none)
RECURSIVE DigitRunEnd(_, _)
DigitRunEnd(s, i) ==
  IF i <= Len(s) /\ s[i] \in Digits THEN DigitRunEnd(s, i + 1) ELSE i - 1

\* str(text): None becomes the text "None"
NoneValue == <<"\\None">>
str(text) == IF text = NoneValue THEN <<"None">> ELSE text

\* re.search(r'Mx?_?(\d+)', str(text)): group 1 of the leftmost match, or ""
extract_moldenhauer_number(text) ==
  LET s == str(text)
      \* where (\d+) starts in a match that starts at i
      DigitsAt(i) ==
        LET afterX == IF i + 1 <= Len(s) /\ s[i + 1] = "x" THEN i + 2 ELSE i + 1
        IN IF afterX <= Len(s) /\ s[afterX] = "_" THEN afterX + 1 ELSE afterX
      starts == {i \in 1..Len(s) :
                   s[i] = "M" /\ DigitRunEnd(s, DigitsAt(i)) >= DigitsAt(i)}
  IN IF starts = {} THEN <<>>
     ELSE SubSeq(s, DigitsAt(Min(starts)), DigitRunEnd(s, DigitsAt(Min(starts))))

\* re.search(r'TF(\d+)', new_id): group 1 of the leftmost match, or NoneValue
tf_match(id) ==
  LET starts == {i \in 1..Len(id) : id[i] = "TF" /\ DigitRunEnd(id, i + 1) >= i + 1}
  IN IF starts = {} THEN NoneValue
     ELSE SubSeq(id, Min(starts) + 1, DigitRunEnd(id, Min(starts) + 1))

\* greedy (?:_\d+)* after position e: the last position of the segments
RECURSIVE SegmentsEnd(_, _)
SegmentsEnd(s, e) ==
  IF e + 1 <= Len(s) /\ s[e + 1] = "_" /\ DigitRunEnd(s, e + 2) >= e + 2
  THEN SegmentsEnd(s, DigitRunEnd(s, e + 2))
  ELSE e

\* re.search(r'(Sk\d+(?:_\d+)*)', new_id): group 1 of the leftmost match, or NoneValue
sk_match(id) ==
  LET starts == {i \in 1..Len(id) : id[i] = "Sk" /\ DigitRunEnd(id, i + 1) >= i + 1}
  IN IF starts = {} THEN NoneValue
     ELSE SubSeq(id, Min(starts), SegmentsEnd(id, DigitRunEnd(id, Min(starts) + 1)))

\* re.search(rf'{re.escape(sk_identifier)}(?!_)', f)
SkPatternFound(sk_identifier, f) ==
  \E i \in 1..(Len(f) + 1 - Len(sk_identifier)) :
     /\ SubSeq(f, i, i + Len(sk_identifier) - 1) = sk_identifier
     /\ ~(i + Len(sk_identifier) <= Len(f) /\ f[i + Len(sk_identifier)] = "_")

\* mutant of matches_moldenhauer_number: the number is not compared
matches_moldenhauer_number_Any(number, filename) == TRUE

matches_moldenhauer_number(number, filename) ==
  number = extract_moldenhauer_number(filename)

Reihentabelle == <<"Reihentabelle">>
SkRT == <<"Sk", "RT">>
Textfassung(n) == <<"Textfassung">> \o n

\* mutant of get_relevant_svgs: the candidates, last one first
get_relevant_svgs_Reversed(id, files, number) ==
  LET c == SelectSeq(files, LAMBDA f :
             matches_moldenhauer_number(number, f) /\ ~Contains(f, Reihentabelle))
  IN [n \in 1..Len(c) |-> c[Len(c) + 1 - n]]

get_relevant_svgs(id, files, number) ==
  LET candidate_svg_files ==
        SelectSeq(files, LAMBDA f :
           matches_moldenhauer_number(number, f) /\ ~Contains(f, Reihentabelle))
  IN IF Contains(id, SkRT)
     THEN SelectSeq(files, LAMBDA f :
             matches_moldenhauer_number(number, f) /\ Contains(f, Reihentabelle))
     ELSE IF tf_match(id) # NoneValue
     THEN SelectSeq(candidate_svg_files, LAMBDA f : Contains(f, Textfassung(tf_match(id))))
     ELSE IF sk_match(id) # NoneValue
     THEN SelectSeq(candidate_svg_files, LAMBDA f : SkPatternFound(sk_match(id), f))
     ELSE candidate_svg_files

----------------------------------------------------------------------------
(* Python dicts: key/value pairs in insertion order *)

Keys(d) == {d[n][1] : n \in 1..Len(d)}
Has(d, key) == key \in Keys(d)
Get(d, key) == d[CHOOSE n \in 1..Len(d) : d[n][1] = key][2]
Put(d, key, val) ==
  IF Has(d, key)
  THEN [n \in 1..Len(d) |-> IF d[n][1] = key THEN <<key, val>> ELSE d[n]]
  ELSE Append(d, <<key, val>>)

----------------------------------------------------------------------------
(* The files *)

\* the SVG folder: a sequence of [name, text], in the order os.listdir gives
FileNamesOf(folder) == [n \in 1..Len(folder) |-> folder[n].name]
ReadFile(folder, path) ==
  folder[CHOOSE n \in 1..Len(folder) : folder[n].name = path].text
\* mutant of WriteFile: nothing is written
WriteFile_Nothing(folder, path, text) == folder

WriteFile(folder, path, text) ==
  [n \in 1..Len(folder) |->
     IF folder[n].name = path THEN [name |-> path, text |-> text] ELSE folder[n]]

\* for fname, sdata in loaded_svg_texts.items(): write sdata['content'] to sdata['path']
RECURSIVE WriteAll(_, _, _)
WriteAll(folder, loaded, objs) ==
  IF loaded = <<>> THEN folder
  ELSE WriteAll(WriteFile(folder, objs[Head(loaded)[2]].path, objs[Head(loaded)[2]].content),
                Tail(loaded), objs)

----------------------------------------------------------------------------
(* create_svg_loader / get_svg_text *)

\* the caches: the dicts created so far and the two maps file name -> dict
Caches(objs, loaded, final) == [objs |-> objs, loaded |-> loaded, final |-> final]

\* mutant of get_svg_text: final_svg_cache keeps the dict of the first load
get_svg_text_KeepFirst(c, folder, filename) ==
  IF Has(c.loaded, filename) THEN c
  ELSE Caches(Append(c.objs, [content |-> ReadFile(folder, filename), path |-> filename]),
              Put(c.loaded, filename, Len(c.objs) + 1),
              IF Has(c.final, filename) THEN c.final
              ELSE Put(c.final, filename, Len(c.objs) + 1))

\* get_svg_text(filename): a file not in loaded_svg_texts is read into a new
\* dict, which both caches then hold
get_svg_text(c, folder, filename) ==
  IF Has(c.loaded, filename) THEN c
  ELSE Caches(Append(c.objs, [content |-> ReadFile(folder, filename), path |-> filename]),
              Put(c.loaded, filename, Len(c.objs) + 1),
              Put(c.final, filename, Len(c.objs) + 1))

ContentOf(c, filename) == c.objs[Get(c.loaded, filename)].content

----------------------------------------------------------------------------
(* process_block_comment *)

prefix == <<"g-tkk-">>
TODO == <<"TODO">>
temp_id == <<"temp_id">>

RECURSIVE Decimal(_)
Decimal(n) ==
  IF n < 10 THEN <<ToString(n)>> ELSE Decimal(n \div 10) \o <<ToString(n % 10)>>

\* mutant of NewId: the numbering starts at 2
NewId_FromTwo(mapping) == prefix \o Decimal(Len(mapping) + 2)

\* f"{prefix}{len(id_mapping) + 1}"
NewId(mapping) == prefix \o Decimal(Len(mapping) + 1)

\* the pattern of line 174: id then class, or class then id and the closing ">"
search_pattern ==
  << TagPattern("id", Quotes, Quotes, 1, 1, FALSE),
     TagPattern("class", Quotes, Quotes, 1, 1, TRUE) >>

\* the for loop over relevant_svgs_for_block, from its n-th file on:
\* the caches after it and the file the id was found in (NoneValue if in none)
RECURSIVE SearchFiles(_, _, _, _, _)
SearchFiles(c, folder, relevant, n, old) ==
  IF n > Len(relevant) THEN [c |-> c, found_in_svg |-> NoneValue]
  ELSE LET c1 == get_svg_text(c, folder, relevant[n])
       IN IF re_search(search_pattern, ContentOf(c1, relevant[n]), old)
          THEN [c |-> c1, found_in_svg |-> relevant[n]]
          ELSE SearchFiles(c1, folder, relevant, n + 1, old)

\* what the call printed and returned
Line(kind, old, new, file) == [kind |-> kind, old |-> old, new |-> new, file |-> file]

\* mutant of SkipUpdate: the id is entered in the rename map before the
\* duplicate check
SkipUpdate_Mapped(old, c, mapping, file) ==
  [svgGroupId |-> old, c |-> c,
   id_mapping |-> IF Has(mapping, old) THEN mapping ELSE Put(mapping, old, NewId(mapping)),
   ret |-> FALSE, line |-> Line("multiple", old, old, file)]

\* "[WARNING] ... Skipping update to prevent data corruption"; return False
SkipUpdate(old, c, mapping, file) ==
  [svgGroupId |-> old, c |-> c, id_mapping |-> mapping, ret |-> FALSE,
   line |-> Line("multiple", old, old, file)]

\* mutant of NoGroupId: TODO is not skipped
NoGroupId_NotTODO(old) == old = NoneValue \/ old = <<>>

\* not old_val or old_val == "TODO"
NoGroupId(old) == old = NoneValue \/ old = <<>> \/ old = TODO

\* process_block_comment(b_comment, ...): the block's svgGroupId, the caches
\* and the rename map after the call, the value returned and the line printed
process_block_comment(old, c, folder, relevant, mapping) ==
  IF NoGroupId(old)
  THEN [svgGroupId |-> old, c |-> c, id_mapping |-> mapping, ret |-> TRUE,
        line |-> Line("skipped", old, old, NoneValue)]
  ELSE
    LET s == SearchFiles(c, folder, relevant, 1, old)
        found_in_svg == s.found_in_svg
    IN IF found_in_svg = NoneValue
       THEN [svgGroupId |-> old, c |-> s.c, id_mapping |-> mapping, ret |-> FALSE,
             line |-> Line("not_found", old, old, NoneValue)]
       ELSE
         LET obj == Get(s.c.loaded, found_in_svg)
             probe == update_svg_id(s.c.objs[obj].content, old, temp_id)
             mapping1 == IF Has(mapping, old) THEN mapping
                         ELSE Put(mapping, old, NewId(mapping))
             new == Get(mapping1, old)
             updated == update_svg_id(s.c.objs[obj].content, old, new)
         IN IF probe.error # NoError
            THEN SkipUpdate(old, s.c, mapping, found_in_svg)
            ELSE [svgGroupId |-> new,
                  c |-> [s.c EXCEPT !.objs[obj].content = updated.content],
                  id_mapping |-> mapping1, ret |-> TRUE,
                  line |-> Line("changing", old, new, found_in_svg)]

----------------------------------------------------------------------------
(* display_uncertainties *)

\* mutant of tkk_id_regex: only class before id
tkk_id_regex_ClassFirst ==
  << TagPattern("class", Quotes, Quotes, 1, 1, FALSE) >>

tkk_id_regex ==
  << TagPattern("class", Quotes, Quotes, 1, 1, FALSE),
     TagPattern("id", Quotes, Quotes, 1, 1, FALSE) >>

\* the svgGroupId values of all blocks of all entries, in order
AllBlocks(d) == Concat([e \in 1..Len(d) |-> d[e].blocks])

\* "[!] JSON ERROR" lines
JsonErrors(d) ==
  Len(SelectSeq(AllBlocks(d), LAMBDA val :
        val # NoneValue /\ val # <<>> /\ ~StartsWith(val, prefix) /\ val # TODO))

\* "[!] SVG ORPHAN" lines of one text
Orphans(text) ==
  Len(SelectSeq(re_findall(tkk_id_regex, text, AnyId), LAMBDA m : ~StartsWith(m.id, prefix)))

\* errors_found
display_uncertainties(d, objs, cache) ==
  JsonErrors(d) + SumSeq([n \in 1..Len(cache) |-> Orphans(objs[cache[n][2]].content)])

----------------------------------------------------------------------------
(* SVG texts drawn for update_svg_id: elements <g a1 a2>content</g>, each   *)
(* with one id and one class attribute                                     *)

\* order "ci": class before id, "ic": id before class
Element(order, cq, cls, iq, id) ==
  [order |-> order, cq |-> cq, cls |-> cls, iq |-> iq, id |-> id]

Render(el) ==
  LET c == ClassAttr(el.cq, el.cls)
      i == IdAttr(el.iq, el.id)
  IN << LT, Txt("g ") >>
       \o (IF el.order = "ci" THEN << c, Txt(" "), i >> ELSE << i, Txt(" "), c >>)
       \o << GT, Txt("content"), LT, Txt("/g"), GT >>

RenderAll(els) == Concat([n \in 1..Len(els) |-> Render(els[n])])

RwIds == {<<"a">>, <<"b">>}
RwNewIds == {<<"b">>, <<"n">>}
RwElements ==
  {Element(o, cq, cls, iq, id) :
     o \in {"ci", "ic"}, cq \in Quotes, cls \in {tkk, <<"other">>}, iq \in Quotes, id \in RwIds}

NoResult == [content |-> <<>>, error |-> NoError]

\* the variables of get_relevant_svgs' call, at rest
FilterIdle ==
  /\ new_id = <<>>
  /\ current_main_number = <<>>
  /\ all_svg_files = <<>>
  /\ relevant_svgs_for_block = <<>>
  /\ fl_pc = "off"

\* the variables of update_svg_id's call, at rest
RewriteIdle ==
  /\ svg_content = <<>>
  /\ old_val = <<>>
  /\ new_val = <<>>
  /\ rw_pc = "off"
  /\ rw_first = NoResult
  /\ rw_back = NoResult

\* the variables of process_tkk_ids, at rest
RunIdle ==
  /\ json_file = <<>>
  /\ svg_folder = <<>>
  /\ paths = [json |-> "missing", folder |-> "missing"]
  /\ data = <<>>
  /\ svg_objs = <<>>
  /\ loaded_svg_texts = <<>>
  /\ final_svg_cache = <<>>
  /\ id_mapping = <<>>
  /\ pc = "off"
  /\ entry_idx = 0
  /\ block_idx = 0
  /\ run = 0
  /\ out = <<>>
  /\ reports = <<>>
  /\ before = [json |-> <<>>, folder |-> <<>>]

InitRewrite ==
  /\ FilterIdle
  /\ RunIdle
  /\ svg_content \in {RenderAll(els) : els \in SeqUpTo(RwElements, MaxElems)}
  /\ old_val \in RwIds
  /\ new_val \in RwNewIds
  /\ rw_pc = "args"
  /\ rw_first = NoResult
  /\ rw_back = NoResult

\* result, error = update_svg_id(svg_content, old_val, new_val)
Rewrite ==
  /\ rw_pc = "args"
  /\ rw_first' = update_svg_id(svg_content, old_val, new_val)
  /\ rw_pc' = "rewritten"
  /\ UNCHANGED <<svg_content, old_val, new_val, rw_back>>
  /\ UNCHANGED <<flVars, fileVars, runVars, obsVars>>

\* back, error = update_svg_id(result, new_val, old_val)
RewriteBack ==
  /\ rw_pc = "rewritten"
  /\ rw_back' = update_svg_id(rw_first.content, new_val, old_val)
  /\ rw_pc' = "back"
  /\ UNCHANGED <<svg_content, old_val, new_val, rw_first>>
  /\ UNCHANGED <<flVars, fileVars, runVars, obsVars>>

NextRewrite == Rewrite \/ RewriteBack

SpecRewrite == InitRewrite /\ [][NextRewrite]_vars

----------------------------------------------------------------------------
(* get_relevant_svgs applied to drawn arguments *)

M(n) == <<"M">> \o n
Tail1von1 == <<"-1von1.svg">>

\* entry ids: M_1 and Mx_12, alone or followed by _TF1, _TF2, _Sk2, _Sk2_1,
\* _Sk2_TF1, _SkRT or _SkRT_TF1; and SkRT
FilterIds ==
  {h \o t :
     h \in {M(<<"_", "1">>), M(<<"x", "_", "1", "2">>)},
     t \in {<<>>, <<"_", "TF", "1">>, <<"_", "TF", "2">>, <<"_", "Sk", "2">>,
            <<"_", "Sk", "2", "_", "1">>, <<"_", "Sk", "2", "_", "TF", "1">>,
            <<"_", "Sk", "RT">>, <<"_", "Sk", "RT", "_", "TF", "1">>}}
  \cup {SkRT}

\* file names: M1_..., M12_..., op1_... followed by Textfassung1,
\* Textfassung2, Textfassung10, Sk2, Sk2_1, Sk2_1_1, Sk2_a, Sk21 or
\* Reihentabelle, and -1von1.svg
FileHeads == {M(<<"1">>), M(<<"1", "2">>), <<"op", "1">>}
FileBodies ==
  {<<"Textfassung", "1">>, <<"Textfassung", "2">>, <<"Textfassung", "1", "0">>,
   <<"Sk", "2">>, <<"Sk", "2", "_", "1">>, <<"Sk", "2", "_", "1", "_", "1">>,
   <<"Sk", "2", "_", "a">>, <<"Sk", "2", "1">>, Reihentabelle}
FileNames == {h \o <<"_">> \o b \o Tail1von1 : h \in FileHeads, b \in FileBodies}

InitFilter ==
  /\ RewriteIdle
  /\ RunIdle
  /\ new_id \in FilterIds
  /\ current_main_number = <<>>
  /\ all_svg_files \in SeqUpTo(FileNames, MaxListed)
  /\ relevant_svgs_for_block = <<>>
  /\ fl_pc = "args"

\* current_main_number = extract_moldenhauer_number(new_id)
\* relevant_svgs_for_block = get_relevant_svgs(new_id, all_svg_files, current_main_number)
Filter ==
  /\ fl_pc = "args"
  /\ current_main_number' = extract_moldenhauer_number(new_id)
  /\ relevant_svgs_for_block' =
        get_relevant_svgs(new_id, all_svg_files, extract_moldenhauer_number(new_id))
  /\ fl_pc' = "filtered"
  /\ UNCHANGED <<new_id, all_svg_files>>
  /\ UNCHANGED <<rwVars, fileVars, runVars, obsVars>>

NextFilter == Filter

SpecFilter == InitFilter /\ [][NextFilter]_vars

----------------------------------------------------------------------------
(* extract_moldenhauer_number applied to drawn texts; the text is held in   *)
(* new_id and the result in current_main_number, as in process_entry        *)

\* texts: before the marker nothing, "op" or a digit; the marker M, Mx or
\* none; then nothing, "_", "-" or "__"; then no digit, 1 or 12; then
\* nothing, _TF5 or _M_7; and None
ExtractTexts ==
  {pre \o marker \o sep \o digits \o suffix :
     pre \in {<<>>, <<"op">>, <<"1">>},
     marker \in {<<"M">>, <<"M", "x">>, <<>>},
     sep \in {<<>>, <<"_">>, <<"-">>, <<"_", "_">>},
     digits \in {<<>>, <<"1">>, <<"1", "2">>},
     suffix \in {<<>>, <<"_", "TF", "5">>, <<"_", "M", "_", "7">>}}
  \cup {NoneValue}

InitExtract ==
  /\ RewriteIdle
  /\ RunIdle
  /\ new_id \in ExtractTexts
  /\ current_main_number = <<>>
  /\ all_svg_files = <<>>
  /\ relevant_svgs_for_block = <<>>
  /\ fl_pc = "text"

\* current_main_number = extract_moldenhauer_number(new_id)
Extract ==
  /\ fl_pc = "text"
  /\ current_main_number' = extract_moldenhauer_number(new_id)
  /\ fl_pc' = "extracted"
  /\ UNCHANGED <<new_id, all_svg_files, relevant_svgs_for_block>>
  /\ UNCHANGED <<rwVars, fileVars, runVars, obsVars>>

NextExtract == Extract

SpecExtract == InitExtract /\ [][NextExtract]_vars

----------------------------------------------------------------------------
(* process_tkk_ids run over drawn files *)

P(n) == prefix \o Decimal(n)

\* the two files of the folder: sketches 1 and 2 of M 1
SvgSk1 == M(<<"1">>) \o <<"_", "Sk", "1">> \o Tail1von1
SvgSk2 == M(<<"1">>) \o <<"_", "Sk", "2">> \o Tail1von1

\* tkk elements with ids a, b and g-tkk-2, one tkk element whose id is in
\* single and whose class is in double quotes, one element of another class
RunElements ==
  {Element("ic", "d", tkk, "d", id) : id \in {<<"a">>, <<"b">>, P(2)}}
  \cup {Element("ic", "d", tkk, "s", <<"a">>), Element("ci", "d", <<"other">>, "d", <<"a">>)}

Folders ==
  {<< [name |-> SvgSk1, text |-> RenderAll(els)], [name |-> SvgSk2, text |-> t2] >> :
     els \in SeqUpTo(RunElements, MaxTags),
     t2 \in {<<>>, Render(Element("ic", "d", tkk, "d", <<"a">>))}}

\* entry ids: M_1 (both files are relevant), M_1_Sk1 (the first is), none
IdM1 == M(<<"_", "1">>)
IdM1Sk1 == M(<<"_", "1", "_", "Sk", "1">>)
\* svgGroupId values: absent, empty, TODO, a, b, g-tkk-2
Refs == {<<"a">>, <<"b">>, P(2)}
SkipRefs == {NoneValue, <<>>, TODO}

Entries(ids, refs, n) == {[id |-> id, blocks |-> bs] : id \in ids, bs \in SeqUpTo(refs, n)}

\* folders without SVG file: empty, or with a text file only
NoSvgFolders == {<<>>, <<[name |-> <<"notes", ".txt">>, text |-> <<>>]>>}

\* documents of one entry, and of two entries the first of which has an id
\* and one block less, and neither of which has blocks to skip
Documents ==
  {<<>>}
  \cup {<<e>> : e \in Entries({IdM1, IdM1Sk1, <<>>}, Refs \cup SkipRefs, MaxBlocks)}
  \cup {<<e1, e2>> : e1 \in Entries({IdM1, IdM1Sk1}, Refs, MaxBlocks - 1),
                      e2 \in Entries({IdM1Sk1, <<>>}, Refs, MaxBlocks)}

Init ==
  /\ RewriteIdle
  /\ FilterIdle
  /\ \/ /\ paths = [json |-> "file", folder |-> "dir"]
        /\ json_file \in Documents
        /\ svg_folder \in Folders \cup NoSvgFolders
     \/ /\ paths \in {[json |-> "file", folder |-> f] : f \in {"missing", "unlistable"}}
        /\ json_file \in Documents
        /\ svg_folder = <<>>
     \/ /\ paths \in {[json |-> "missing", folder |-> f] : f \in {"dir", "missing"}}
        /\ json_file = <<>>
        /\ svg_folder \in IF paths.folder = "dir" THEN Folders \cup NoSvgFolders ELSE {<<>>}
  /\ data = <<>>
  /\ svg_objs = <<>>
  /\ loaded_svg_texts = <<>>
  /\ final_svg_cache = <<>>
  /\ id_mapping = <<>>
  /\ pc = "start"
  /\ entry_idx = 0
  /\ block_idx = 0
  /\ run = 0
  /\ out = <<>>
  /\ reports = <<>>
  /\ before = [json |-> json_file, folder |-> svg_folder]

IsSvg(name) == name # <<>> /\ name[Len(name)] = Tail1von1[1]

\* the exceptions of load_and_validate_inputs
JsonNotFound == "FileNotFoundError: JSON file not found"
FolderNotFound == "FileNotFoundError: SVG folder not found"
CannotList == "PermissionError: Cannot list contents of SVG folder"
NoSvgFiles == "ValueError: No SVG files found in folder"

\* mutant of load_and_validate_inputs: an empty list of SVG files is accepted
load_and_validate_inputs_NoCount(at, json, folder) ==
  IF at.json = "missing" THEN [raised |-> JsonNotFound, data |-> <<>>, all_svg_files |-> <<>>]
  ELSE IF at.folder = "missing"
  THEN [raised |-> FolderNotFound, data |-> <<>>, all_svg_files |-> <<>>]
  ELSE IF at.folder = "unlistable"
  THEN [raised |-> CannotList, data |-> <<>>, all_svg_files |-> <<>>]
  ELSE [raised |-> "", data |-> json,
        all_svg_files |-> SelectSeq(FileNamesOf(folder), IsSvg)]

\* load_and_validate_inputs: the exception raised ("" if none), or the
\* document and the names of the SVG files
load_and_validate_inputs(at, json, folder) ==
  IF at.json = "missing" THEN [raised |-> JsonNotFound, data |-> <<>>, all_svg_files |-> <<>>]
  ELSE IF at.folder = "missing"
  THEN [raised |-> FolderNotFound, data |-> <<>>, all_svg_files |-> <<>>]
  ELSE IF at.folder = "unlistable"
  THEN [raised |-> CannotList, data |-> <<>>, all_svg_files |-> <<>>]
  ELSE IF SelectSeq(FileNamesOf(folder), IsSvg) = <<>>
  THEN [raised |-> NoSvgFiles, data |-> <<>>, all_svg_files |-> <<>>]
  ELSE [raised |-> "", data |-> json,
        all_svg_files |-> SelectSeq(FileNamesOf(folder), IsSvg)]

\* the position after block b - 1 of entry e: block b, the next entry, or
\* save_results
After(d, e, b) ==
  IF b <= Len(d[e].blocks) THEN [pc |-> "block", entry_idx |-> e, block_idx |-> b]
  ELSE IF e < Len(d) THEN [pc |-> "entry", entry_idx |-> e + 1, block_idx |-> 1]
  ELSE [pc |-> "save_svgs", entry_idx |-> e + 1, block_idx |-> 1]

\* process_tkk_ids is called: load_and_validate_inputs, the empty caches
StartRun ==
  /\ pc = "start" \/ (pc = "done" /\ run < MaxRuns)
  /\ run' = run + 1
  /\ before' = [json |-> json_file, folder |-> svg_folder]
  /\ out' = <<>>
  /\ \E r \in {load_and_validate_inputs(paths, json_file, svg_folder)} :
       /\ data' = r.data
       /\ all_svg_files' = r.all_svg_files
       /\ pc' = IF r.raised # "" THEN r.raised
                ELSE IF r.data = <<>> THEN "save_svgs" ELSE "entry"
  /\ svg_objs' = <<>>
  /\ loaded_svg_texts' = <<>>
  /\ final_svg_cache' = <<>>
  /\ id_mapping' = <<>>
  /\ new_id' = <<>>
  /\ current_main_number' = <<>>
  /\ relevant_svgs_for_block' = <<>>
  /\ entry_idx' = 1
  /\ block_idx' = 1
  /\ UNCHANGED <<reports, fileVars, fl_pc>>
  /\ UNCHANGED rwVars

\* mutant of relevant_svgs_without_id: every file is relevant
relevant_svgs_without_id_All == all_svg_files

\* else: relevant_svgs_for_block = []
relevant_svgs_without_id == <<>>

\* process_entry up to its block loop
ProcessEntry ==
  /\ pc = "entry"
  /\ LET entry == data[entry_idx]
         next == After(data, entry_idx, 1)
     IN /\ new_id' = entry.id
        /\ id_mapping' = <<>>
        /\ IF entry.id # <<>>
           THEN /\ svg_folder' = WriteAll(svg_folder, loaded_svg_texts, svg_objs)
                /\ loaded_svg_texts' = <<>>
                /\ current_main_number' = extract_moldenhauer_number(entry.id)
                /\ relevant_svgs_for_block' =
                     get_relevant_svgs(entry.id, all_svg_files,
                                       extract_moldenhauer_number(entry.id))
           ELSE /\ relevant_svgs_for_block' = relevant_svgs_without_id
                /\ current_main_number' = <<>>
                /\ UNCHANGED <<svg_folder, loaded_svg_texts>>
        /\ pc' = next.pc
        /\ entry_idx' = next.entry_idx
        /\ block_idx' = next.block_idx
  /\ UNCHANGED <<json_file, paths, data, svg_objs, final_svg_cache, all_svg_files, fl_pc>>
  /\ UNCHANGED obsVars
  /\ UNCHANGED rwVars

\* one pass of the block loop: process_block_comment on the block
ProcessBlock ==
  /\ pc = "block"
  /\ \E r \in {process_block_comment(data[entry_idx].blocks[block_idx],
                                    Caches(svg_objs, loaded_svg_texts, final_svg_cache),
                                    svg_folder, relevant_svgs_for_block, id_mapping)} :
     LET next == After(data, entry_idx, block_idx + 1)
     IN /\ data' = [data EXCEPT ![entry_idx].blocks[block_idx] = r.svgGroupId]
        /\ svg_objs' = r.c.objs
        /\ loaded_svg_texts' = r.c.loaded
        /\ final_svg_cache' = r.c.final
        /\ id_mapping' = r.id_mapping
        /\ out' = Append(out, [entry |-> entry_idx, block |-> block_idx, ret |-> r.ret,
                               line |-> r.line])
        /\ pc' = next.pc
        /\ entry_idx' = next.entry_idx
        /\ block_idx' = next.block_idx
  /\ UNCHANGED <<run, reports, before>>
  /\ UNCHANGED <<fileVars, flVars>>
  /\ UNCHANGED rwVars

\* save_results: the SVG files still loaded are written
SaveSvgs ==
  /\ pc = "save_svgs"
  /\ svg_folder' = WriteAll(svg_folder, loaded_svg_texts, svg_objs)
  /\ pc' = "report"
  /\ UNCHANGED <<json_file, paths, data, svg_objs, loaded_svg_texts, final_svg_cache,
                 id_mapping, entry_idx, block_idx>>
  /\ UNCHANGED <<flVars, obsVars>>
  /\ UNCHANGED rwVars

\* save_results: display_uncertainties(data, prefix, final_svg_cache)
DisplayUncertainties ==
  /\ pc = "report"
  /\ reports' = Append(reports, display_uncertainties(data, svg_objs, final_svg_cache))
  /\ pc' = "save_json"
  /\ UNCHANGED <<data, svg_objs, loaded_svg_texts, final_svg_cache, id_mapping,
                 entry_idx, block_idx>>
  /\ UNCHANGED <<run, out, before>>
  /\ UNCHANGED <<fileVars, flVars>>
  /\ UNCHANGED rwVars

\* save_results: the JSON file is written; process_tkk_ids returns
SaveJson ==
  /\ pc = "save_json"
  /\ json_file' = data
  /\ pc' = "done"
  /\ UNCHANGED <<svg_folder, paths, data, svg_objs, loaded_svg_texts, final_svg_cache,
                 id_mapping, entry_idx, block_idx>>
  /\ UNCHANGED <<flVars, obsVars>>
  /\ UNCHANGED rwVars

Next ==
  \/ StartRun
  \/ ProcessEntry
  \/ ProcessBlock
  \/ SaveSvgs
  \/ DisplayUncertainties
  \/ SaveJson

Spec == Init /\ [][Next]_vars

----------------------------------------------------------------------------
(* display_uncertainties applied to drawn data and SVG texts *)

\* elements in both attribute orders and quote styles, of class tkk or
\* another, with id a or g-tkk-1
ReportElements ==
  {Element(o, cq, cls, iq, id) :
     o \in {"ci", "ic"}, cq \in Quotes, cls \in {tkk, <<"other">>}, iq \in Quotes,
     id \in {<<"a">>, P(1)}}

\* one entry with blocks without svgGroupId, with "", TODO, a or g-tkk-1
ReportDocuments ==
  {<<[id |-> IdM1, blocks |-> bs]>> :
     bs \in SeqUpTo({NoneValue, <<>>, TODO, <<"a">>, P(1)}, MaxBlocks)}

InitReport ==
  /\ RewriteIdle
  /\ FilterIdle
  /\ json_file = <<>>
  /\ svg_folder = <<>>
  /\ paths = [json |-> "missing", folder |-> "missing"]
  /\ data \in ReportDocuments
  /\ svg_objs \in
       {<< [content |-> RenderAll(els), path |-> SvgSk1], [content |-> t2, path |-> SvgSk2] >> :
          els \in SeqUpTo(ReportElements, MaxElems),
          t2 \in {<<>>, Render(Element("ic", "s", tkk, "s", <<"a">>))}}
  /\ loaded_svg_texts = <<>>
  /\ final_svg_cache = << <<SvgSk1, 1>>, <<SvgSk2, 2>> >>
  /\ id_mapping = <<>>
  /\ pc = "report"
  /\ entry_idx = 0
  /\ block_idx = 0
  /\ run = 0
  /\ out = <<>>
  /\ reports = <<>>
  /\ before = [json |-> <<>>, folder |-> <<>>]

NextReport == DisplayUncertainties

SpecReport == InitReport /\ [][NextReport]_vars

----------------------------------------------------------------------------
(* What a text contains, read off its opening tags (independent of the     *)
(* program's patterns): a tag runs from a "<" to the first ">" after it.   *)

TagStarts(text) == {i \in 1..Len(text) : text[i].k = "lt" /\ NextGt(text, i) # 0}

TagTokens(text, i) == (i + 1)..(NextGt(text, i) - 1)

\* the element opened at i has class tkk
IsTkk(text, i) == \E n \in TagTokens(text, i) : text[n].k = "class" /\ text[n].v = tkk

\* the element opened at i has class tkk and the given id
IsTkkWithId(text, i, id) ==
  /\ IsTkk(text, i)
  /\ \E n \in TagTokens(text, i) : text[n].k = "id" /\ text[n].v = id

TkkElements(text, id) == {i \in TagStarts(text) : IsTkkWithId(text, i, id)}

TkkCount(text, id) == Cardinality(TkkElements(text, id))

\* the id attributes with value id inside tkk elements
TkkIdTokens(text, id) ==
  {n \in 1..Len(text) :
     /\ text[n].k = "id" /\ text[n].v = id
     /\ \E i \in TkkElements(text, id) : n \in TagTokens(text, i)}

\* text with the id of every tkk element that carries old set to new
Renamed(text, old, new) ==
  [n \in 1..Len(text) |->
     IF n \in TkkIdTokens(text, old) THEN IdAttr(text[n].q, new) ELSE text[n]]

----------------------------------------------------------------------------
(* process_tkk_ids: what a run printed and what the caches hold *)

\* the text the caches hold for a file
CachedText(objs, cache, filename) == objs[Get(cache, filename)].content

Skipped(val) == val = NoneValue \/ val = <<>> \/ val = TODO

Range(s) == {s[n] : n \in 1..Len(s)}

\* the lines of the blocks of entry e that were renamed, in block order
Renames(e) == SelectSeq(out, LAMBDA l : l.entry = e /\ l.line.kind = "changing")

\* the lines of the blocks of entry e that failed
Failures(e) == SelectSeq(out, LAMBDA l : l.entry = e /\ ~l.ret)

\* the members of s in the order of their first occurrence
RECURSIVE Distinct(_)
Distinct(s) ==
  IF s = <<>> THEN <<>>
  ELSE LET d == Distinct(SubSeq(s, 1, Len(s) - 1))
       IN IF s[Len(s)] \in Range(d) THEN d ELSE Append(d, s[Len(s)])

IndexOf(s, x) == CHOOSE n \in 1..Len(s) : s[n] = x

\* the block loop of entry entry_idx - 1 has just ended
EntryDone == pc \in {"entry", "save_svgs"} /\ entry_idx >= 2

\* the last block step, if it was the last step of the run so far
LastLine == out[Len(out)]

\* the blocks whose svgGroupId is not empty, not TODO and without the prefix
UnchangedBlocks(d) ==
  {eb \in UNION {{<<e, b>> : b \in 1..Len(d[e].blocks)} : e \in 1..Len(d)} :
     /\ ~Skipped(d[eb[1]].blocks[eb[2]])
     /\ ~StartsWith(d[eb[1]].blocks[eb[2]], prefix)}

\* the tkk elements of a text whose id is without the prefix
OrphanElements(text) ==
  {i \in TagStarts(text) :
     /\ IsTkk(text, i)
     /\ \E n \in TagTokens(text, i) : text[n].k = "id" /\ ~StartsWith(text[n].v, prefix)}

IssueCount(d, objs, cache) ==
  Cardinality(UnchangedBlocks(d))
  + SumSeq([n \in 1..Len(cache) |-> Cardinality(OrphanElements(objs[cache[n][2]].content))])

----------------------------------------------------------------------------
(* Claims about process_tkk_ids *)

\* C2: whenever a block's svgGroupId has just been changed from old to new,
\* the cached text of the located file contains a tkk element with id new and
\* no tkk element with id old.
C2_RenameReachesMarkup ==
  (pc # "start" /\ out # <<>> /\ LastLine.line.kind = "changing"
     /\ LastLine.line.old # LastLine.line.new)
  => LET text == CachedText(svg_objs, final_svg_cache, LastLine.line.file)
     IN /\ data[LastLine.entry].blocks[LastLine.block] = LastLine.line.new
        /\ TkkCount(text, LastLine.line.new) >= 1
        /\ TkkCount(text, LastLine.line.old) = 0

\* C3 as stated: when the blocks of an entry have been processed, the new
\* identifiers assigned in it are prefix+1 .. prefix+k, k being the number of
\* distinct old identifiers among its blocks that are neither TODO nor empty.
C3_SequenceOfEncountered ==
  EntryDone =>
    LET e == entry_idx - 1
        olds == {val \in Range(before.json[e].blocks) : ~Skipped(val)}
        news == {l.line.new : l \in Range(Renames(e))}
    IN news = {P(i) : i \in 1..Cardinality(olds)}

\* C3 amended: when the blocks of an entry have been processed, the new
\* identifiers assigned in it are prefix+1 .. prefix+k, k being the number of
\* distinct old identifiers whose block was renamed (found in a relevant file
\* and not ambiguous); the i-th of them in block order got prefix+i, and the
\* rename map of the entry holds exactly these pairs.
C3_SequenceOfRenamed ==
  EntryDone =>
    LET e == entry_idx - 1
        ren == Renames(e)
        olds == Distinct([n \in 1..Len(ren) |-> ren[n].line.old])
        news == {l.line.new : l \in Range(ren)}
    IN /\ news = {P(i) : i \in 1..Len(olds)}
       /\ \A n \in 1..Len(ren) :
            /\ ren[n].line.new = P(IndexOf(olds, ren[n].line.old))
            /\ data[e].blocks[ren[n].block] = ren[n].line.new
       /\ id_mapping = [i \in 1..Len(olds) |-> <<olds[i], P(i)>>]

\* an entry has been processed in which one block failed and a later block
\* was renamed to prefix+1
C3_Witness ==
  /\ EntryDone
  /\ \E m, n \in 1..Len(out) :
       /\ m < n
       /\ out[m].entry = entry_idx - 1 /\ out[n].entry = entry_idx - 1
       /\ ~out[m].ret
       /\ out[n].line.kind = "changing" /\ out[n].line.new = P(1)
       /\ out[n].line.old # out[m].line.old

\* C4: a step of the block loop in which process_block_comment fails (id not
\* found, or ambiguous) leaves the block's svgGroupId, the rename map and the
\* text of every cached file unchanged, and the run goes on with the next
\* block of the entry (with the next entry, or save_results, after the last).
C4_FailureChangesNothing ==
  [][ (pc = "block" /\ out' # out /\ ~out'[Len(out')].ret)
      => /\ out'[Len(out')].line.kind \in {"not_found", "multiple"}
         /\ data' = data
         /\ json_file' = json_file
         /\ svg_folder' = svg_folder
         /\ id_mapping' = id_mapping
         /\ \A f \in Keys(final_svg_cache) :
              /\ f \in Keys(final_svg_cache')
              /\ CachedText(svg_objs', final_svg_cache', f)
                   = CachedText(svg_objs, final_svg_cache, f)
         /\ \A f \in Keys(final_svg_cache') \ Keys(final_svg_cache) :
              CachedText(svg_objs', final_svg_cache', f) = ReadFile(svg_folder, f)
         /\ IF block_idx < Len(data[entry_idx].blocks)
            THEN pc' = "block" /\ entry_idx' = entry_idx /\ block_idx' = block_idx + 1
            ELSE pc' \in {"entry", "save_svgs"} /\ entry_idx' = entry_idx + 1
    ]_vars

\* in one entry a block was ambiguous and the next block was not found
C4_Witness ==
  /\ pc # "start"
  /\ \E m, n \in 1..Len(out) :
       /\ n = m + 1
       /\ out[m].entry = out[n].entry
       /\ out[m].line.kind = "multiple"
       /\ out[n].line.kind = "not_found"

\* C5: a second run over the files a first run left, the first run's report
\* having shown no issue, changes no svgGroupId and no element id, and its
\* report shows no issue.
C5_SecondRunChangesNothing ==
  (run = 2 /\ reports[1] = 0 /\ pc # "start")
  => /\ data = before.json
     /\ json_file = before.json
     /\ svg_folder = before.folder
     /\ \A f \in Keys(final_svg_cache) :
          CachedText(svg_objs, final_svg_cache, f) = ReadFile(before.folder, f)
     /\ Len(reports) = 2 => reports[2] = 0

\* C14: a call of process_tkk_ids with the document path missing, the folder
\* missing, the folder not listable, or no SVG file in the folder raises
\* FileNotFoundError, FileNotFoundError, PermissionError and ValueError
\* respectively, and neither then nor later is a file written or changed.
C14_FatalBeforeMutation ==
  /\ [][ (pc = "start" \/ pc = "done")
         => /\ paths.json = "missing" => pc' = JsonNotFound
            /\ (paths.json = "file" /\ paths.folder = "missing") => pc' = FolderNotFound
            /\ (paths.json = "file" /\ paths.folder = "unlistable") => pc' = CannotList
            /\ (/\ paths.json = "file" /\ paths.folder = "dir"
                /\ \A n \in 1..Len(svg_folder) : ~IsSvg(svg_folder[n].name))
               => pc' = NoSvgFiles
            /\ pc' \in {JsonNotFound, FolderNotFound, CannotList, NoSvgFiles}
               => (json_file' = json_file /\ svg_folder' = svg_folder /\ paths' = paths)
       ]_vars
  /\ [][ (pc \in {JsonNotFound, FolderNotFound, CannotList, NoSvgFiles}) => (vars' = vars)
       ]_vars

\* the call ended with ValueError: the folder holds a text file only
C14_Witness ==
  /\ pc = NoSvgFiles
  /\ svg_folder # <<>>
  /\ json_file # <<>>

\* C16: when the report of a run has been made, every block for which the run
\* reported a failure (not found, or ambiguous) still has its old svgGroupId
\* and is counted by the report as a JSON issue, so a report of 0 issues means
\* that no block failed.
C16_FailuresFlagged ==
  (pc \in {"save_json", "done"} /\ Len(reports) = run)
  => /\ \A n \in 1..Len(out) :
          ~out[n].ret
          => /\ data[out[n].entry].blocks[out[n].block]
                  = before.json[out[n].entry].blocks[out[n].block]
             /\ <<out[n].entry, out[n].block>> \in UnchangedBlocks(data)
     /\ reports[run] = 0 => \A n \in 1..Len(out) : out[n].ret

\* C17: when the blocks of an entry have been processed, every block whose old
\* svgGroupId was that of an earlier, renamed block of the entry has the new
\* identifier of that earlier block, and the rename map has one pair for them.
C17_RepeatedIdSameNewId ==
  EntryDone =>
    LET e == entry_idx - 1
        ren == Renames(e)
    IN \A n \in 1..Len(ren) :
         \A b \in (ren[n].block + 1)..Len(data[e].blocks) :
           before.json[e].blocks[b] = ren[n].line.old
           => /\ data[e].blocks[b] = ren[n].line.new
              /\ Cardinality({m \in 1..Len(id_mapping) :
                                id_mapping[m][1] = ren[n].line.old}) = 1

\* C18: a step of the block loop on a block whose svgGroupId is absent, empty
\* or TODO changes neither the block, the rename map, the caches and the
\* texts in them, nor any file, loads no file and counts as success; and a
\* block renamed for the first time in its entry gets prefix + (number of
\* identifiers mapped so far + 1), whatever was skipped before it.
C18_SkipChangesNothing ==
  /\ [][ (pc = "block" /\ Skipped(data[entry_idx].blocks[block_idx]))
         => /\ data' = data
            /\ id_mapping' = id_mapping
            /\ svg_objs' = svg_objs
            /\ loaded_svg_texts' = loaded_svg_texts
            /\ final_svg_cache' = final_svg_cache
            /\ json_file' = json_file
            /\ svg_folder' = svg_folder
            /\ Len(out') = Len(out) + 1
            /\ out'[Len(out')].ret
            /\ out'[Len(out')].line.kind = "skipped"
       ]_vars
  /\ [][ (/\ pc = "block"
          /\ out' # out
          /\ out'[Len(out')].line.kind = "changing"
          /\ ~Has(id_mapping, data[entry_idx].blocks[block_idx]))
         => /\ out'[Len(out')].line.new = P(Len(id_mapping) + 1)
            /\ data'[entry_idx].blocks[block_idx] = P(Len(id_mapping) + 1)
       ]_vars

\* a TODO block of an entry with relevant files was skipped, and the next
\* block of the entry was renamed to prefix+1
C18_Witness ==
  /\ pc # "start"
  /\ \E m, n \in 1..Len(out) :
       /\ n = m + 1
       /\ out[m].entry = out[n].entry
       /\ out[m].line.kind = "skipped" /\ out[m].line.old = TODO
       /\ out[n].line.kind = "changing" /\ out[n].line.new = P(1)
       /\ out[n].line.old # P(1)

\* C19: the step that starts an entry with an id writes the cached text of
\* every file in loaded_svg_texts to its file, leaves the other files alone,
\* empties loaded_svg_texts and loads no file (files are loaded in the block
\* steps that follow); the step that starts an entry without id writes no file
\* and leaves loaded_svg_texts as it is.
C19_FlushAtEntry ==
  [][ pc = "entry"
      => IF data[entry_idx].id # <<>>
         THEN /\ \A n \in 1..Len(svg_folder') :
                   /\ svg_folder'[n].name = svg_folder[n].name
                   /\ svg_folder'[n].text =
                        IF Has(loaded_svg_texts, svg_folder[n].name)
                        THEN svg_objs[Get(loaded_svg_texts, svg_folder[n].name)].content
                        ELSE svg_folder[n].text
              /\ Len(svg_folder') = Len(svg_folder)
              /\ loaded_svg_texts' = <<>>
              /\ svg_objs' = svg_objs
              /\ final_svg_cache' = final_svg_cache
         ELSE /\ svg_folder' = svg_folder
              /\ loaded_svg_texts' = loaded_svg_texts
              /\ svg_objs' = svg_objs
    ]_vars

\* the second entry, which has an id, has just been started: the file changed
\* by the first entry has been written and loaded_svg_texts is empty
C19_Witness ==
  /\ pc = "block"
  /\ entry_idx = 2
  /\ block_idx = 1
  /\ out # <<>>
  /\ LastLine.entry = 1
  /\ data[2].id # <<>>
  /\ loaded_svg_texts = <<>>
  /\ final_svg_cache # <<>>
  /\ svg_folder # before.folder
  /\ \A f \in Keys(final_svg_cache) :
       CachedText(svg_objs, final_svg_cache, f) = ReadFile(svg_folder, f)

\* C20: at the end of a run the files left in loaded_svg_texts are written
\* first, then the document, and only then is the report made: once the
\* report of the run exists, every cached text is in its file and the document
\* in the JSON file is the data reported on.
C20_ReportAfterPersist ==
  (run >= 1 /\ Len(reports) = run)
  => /\ \A f \in Keys(final_svg_cache) :
          CachedText(svg_objs, final_svg_cache, f) = ReadFile(svg_folder, f)
     /\ json_file = data

\* C21: an entry without id gets no relevant file, and its blocks are visited
\* in order: while it is processed no file is loaded, no cached text and no
\* file is changed, no svgGroupId of it changes, and each of its blocks whose
\* svgGroupId is not empty and not TODO gives the not-found failure.
C21_EntryWithoutId ==
  /\ [][ (pc = "entry" /\ data[entry_idx].id = <<>>)
         => /\ relevant_svgs_for_block' = <<>>
            /\ data' = data
            /\ svg_objs' = svg_objs
            /\ loaded_svg_texts' = loaded_svg_texts
            /\ final_svg_cache' = final_svg_cache
            /\ svg_folder' = svg_folder
            /\ out' = out
            /\ IF data[entry_idx].blocks # <<>>
               THEN pc' = "block" /\ entry_idx' = entry_idx /\ block_idx' = 1
               ELSE pc' \in {"entry", "save_svgs"} /\ entry_idx' = entry_idx + 1
       ]_vars
  /\ [][ (pc = "block" /\ data[entry_idx].id = <<>>)
         => /\ data' = data
            /\ svg_objs' = svg_objs
            /\ loaded_svg_texts' = loaded_svg_texts
            /\ final_svg_cache' = final_svg_cache
            /\ svg_folder' = svg_folder
            /\ Len(out') = Len(out) + 1
            /\ out'[Len(out')].entry = entry_idx
            /\ out'[Len(out')].block = block_idx
            /\ IF Skipped(data[entry_idx].blocks[block_idx])
               THEN out'[Len(out')].ret /\ out'[Len(out')].line.kind = "skipped"
               ELSE ~out'[Len(out')].ret /\ out'[Len(out')].line.kind = "not_found"
            /\ IF block_idx < Len(data[entry_idx].blocks)
               THEN pc' = "block" /\ entry_idx' = entry_idx /\ block_idx' = block_idx + 1
               ELSE pc' \in {"entry", "save_svgs"} /\ entry_idx' = entry_idx + 1
       ]_vars

\* the second entry has no id; its block a was not found although a file
\* still loaded from the first entry holds a tkk element with id a
C21_Witness ==
  /\ pc # "start"
  /\ out # <<>>
  /\ LastLine.entry = 2
  /\ data[2].id = <<>>
  /\ LastLine.line.kind = "not_found"
  /\ \E f \in Keys(loaded_svg_texts) :
       TkkCount(CachedText(svg_objs, loaded_svg_texts, f), LastLine.line.old) >= 1

\* no two tkk elements of the text have the same id
NoSharedTkkId(text) ==
  \A n \in 1..Len(text) : text[n].k = "id" => TkkCount(text, text[n].v) <= 1

\* C22: in a run that started with no file holding two tkk elements with the
\* same id, no file and no cached text ever holds two tkk elements with the
\* same id.
C22_NoMerge ==
  (pc # "start" /\ \A n \in 1..Len(before.folder) : NoSharedTkkId(before.folder[n].text))
  => /\ \A n \in 1..Len(svg_folder) : NoSharedTkkId(svg_folder[n].text)
     /\ \A f \in Keys(final_svg_cache) :
          NoSharedTkkId(CachedText(svg_objs, final_svg_cache, f))

\* C23: the file names in loaded_svg_texts are always among those in
\* final_svg_cache, and when a run has returned, the text final_svg_cache
\* holds for a file is the text in that file, also for a file that was
\* loaded, written and evicted, and loaded again by a later entry.
C23_NoModificationLost ==
  /\ Keys(loaded_svg_texts) \subseteq Keys(final_svg_cache)
  /\ pc = "done"
     => \A f \in Keys(final_svg_cache) :
          CachedText(svg_objs, final_svg_cache, f) = ReadFile(svg_folder, f)

\* a run has returned in which a file was loaded by the first entry, changed,
\* written and evicted, and loaded and changed again by the second entry
C23_Witness ==
  /\ pc = "done"
  /\ \E i, j \in 1..Len(svg_objs) :
       /\ i < j
       /\ svg_objs[i].path = svg_objs[j].path
       /\ svg_objs[i].content # ReadFile(before.folder, svg_objs[i].path)
       /\ svg_objs[j].content # svg_objs[i].content
       /\ Get(final_svg_cache, svg_objs[j].path) = j

----------------------------------------------------------------------------
(* Claims about update_svg_id (SpecRewrite) *)

\* C1: when the text contains more than one tkk-classed element with id old
\* (either attribute order, either quote character on each attribute), the
\* returned text is the input text and the error names old and the number of
\* such elements.
C1_AmbiguityReported ==
  (rw_pc # "args" /\ TkkCount(svg_content, old_val) > 1) =>
     /\ rw_first.content = svg_content
     /\ rw_first.error = MultipleError(old_val, TkkCount(svg_content, old_val))

\* C6: for a text with exactly one tkk-classed element with id old, rewriting
\* old to new and then new to old reproduces the text, with no error from
\* either call.
C6_RoundTrip ==
  (rw_pc = "back" /\ TkkCount(svg_content, old_val) = 1) =>
     /\ rw_first.error = NoError
     /\ rw_back.error = NoError
     /\ rw_back.content = svg_content

\* C6 (amended): the round trip of C6 holds when, besides the one tkk-classed
\* element with id old, no other tkk-classed element of the text carries new.
C6_RoundTripFreshId ==
  (/\ rw_pc = "back"
   /\ TkkCount(svg_content, old_val) = 1
   /\ TkkElements(svg_content, new_val) \subseteq TkkElements(svg_content, old_val)) =>
     /\ rw_first.error = NoError
     /\ rw_back.error = NoError
     /\ rw_back.content = svg_content

\* an element was rewritten to a fresh id and written back
C6_Witness ==
  /\ rw_pc = "back"
  /\ TkkCount(svg_content, old_val) = 1
  /\ TkkCount(svg_content, new_val) = 0
  /\ rw_first.content # svg_content
  /\ TkkCount(rw_first.content, new_val) = 1
  /\ rw_back.content = svg_content

\* C7: the id of the single tkk-classed element with id old is rewritten to
\* new whatever the order of the two attributes and whatever the quote
\* character of each, with no error and nothing else changed.
C7_SingleElementRewritten ==
  (rw_pc # "args" /\ TkkCount(svg_content, old_val) = 1) =>
     /\ rw_first.error = NoError
     /\ rw_first.content = Renamed(svg_content, old_val, new_val)

\* C8: an element whose class is not tkk is never changed: with no
\* tkk-classed element of id old the text comes back as it was, with no
\* error; otherwise a token that differs is the id attribute of a
\* tkk-classed element that carried old, now carrying new in the same quotes.
C8_OnlyTkkIdsChange ==
  (rw_pc # "args") =>
     /\ Len(rw_first.content) = Len(svg_content)
     /\ TkkCount(svg_content, old_val) = 0 =>
          (rw_first.content = svg_content /\ rw_first.error = NoError)
     /\ \A n \in 1..Len(svg_content) :
          rw_first.content[n] # svg_content[n] =>
             /\ n \in TkkIdTokens(svg_content, old_val)
             /\ rw_first.content[n] = IdAttr(svg_content[n].q, new_val)

\* one tkk element was rewritten next to an untouched element of another
\* class with the same id
C8_Witness ==
  /\ rw_pc # "args"
  /\ TkkCount(svg_content, old_val) = 1
  /\ \E i \in TagStarts(svg_content) :
       /\ ~IsTkk(svg_content, i)
       /\ \E n \in TagTokens(svg_content, i) :
            /\ svg_content[n].k = "id" /\ svg_content[n].v = old_val
            /\ rw_first.content[n] = svg_content[n]
  /\ rw_first.content # svg_content
  /\ new_val # old_val
----------------------------------------------------------------------------
(* Claims about get_relevant_svgs (SpecFilter) *)

SameNumber(f) == extract_moldenhauer_number(f) = current_main_number

\* the file names that a result of get_relevant_svgs lists
Listed(files) == {files[n] : n \in 1..Len(files)}

\* f contains the text t at a place where no digit follows it
ContainsExactNumber(f, t) ==
  \E i \in 1..(Len(f) + 1 - Len(t)) :
     /\ SubSeq(f, i, i + Len(t) - 1) = t
     /\ ~(i + Len(t) <= Len(f) /\ f[i + Len(t)] \in Digits)

\* f contains the text t at a place where no _<digit> follows it
ContainsWithoutSegment(f, t) ==
  \E i \in 1..(Len(f) + 1 - Len(t)) :
     /\ SubSeq(f, i, i + Len(t) - 1) = t
     /\ ~(/\ i + Len(t) + 1 <= Len(f)
          /\ f[i + Len(t)] = "_"
          /\ f[i + Len(t) + 1] \in Digits)

\* C9: for an id without SkRT that contains TF<n>, the result is exactly the
\* same-number files without Reihentabelle that contain Textfassung<n> with
\* no further digit after <n>.
C9_TextfassungExact ==
  (fl_pc = "filtered" /\ ~Contains(new_id, SkRT) /\ tf_match(new_id) # NoneValue) =>
     /\ relevant_svgs_for_block =
          SelectSeq(all_svg_files, LAMBDA f :
             /\ SameNumber(f)
             /\ ~Contains(f, Reihentabelle)
             /\ ContainsExactNumber(f, Textfassung(tf_match(new_id))))

\* C10: for an id without SkRT and TF<n> that contains a sketch token T, the
\* result is exactly the same-number files without Reihentabelle that contain
\* T with no _<digit> segment right after it.
C10_SketchExact ==
  (/\ fl_pc = "filtered"
   /\ ~Contains(new_id, SkRT)
   /\ tf_match(new_id) = NoneValue
   /\ sk_match(new_id) # NoneValue) =>
     /\ relevant_svgs_for_block =
          SelectSeq(all_svg_files, LAMBDA f :
             /\ SameNumber(f)
             /\ ~Contains(f, Reihentabelle)
             /\ ContainsWithoutSegment(f, sk_match(new_id)))

\* C11: for an id that contains SkRT, whatever else it contains, the result is
\* exactly the same-number files that contain Reihentabelle; for an id
\* without SkRT no file that contains Reihentabelle is returned.
C11_RowTablesOnlyForSkRT ==
  fl_pc = "filtered" =>
    IF Contains(new_id, SkRT)
    THEN relevant_svgs_for_block =
           SelectSeq(all_svg_files, LAMBDA f : SameNumber(f) /\ Contains(f, Reihentabelle))
    ELSE \A f \in Listed(relevant_svgs_for_block) : ~Contains(f, Reihentabelle)

\* an id with SkRT and TF1 got a row table, and a same-number file of
\* another kind was listed too
C11_Witness ==
  /\ fl_pc = "filtered"
  /\ Contains(new_id, SkRT)
  /\ tf_match(new_id) # NoneValue
  /\ relevant_svgs_for_block # <<>>
  /\ \E f \in Listed(all_svg_files) : SameNumber(f) /\ ~Contains(f, Reihentabelle)

\* C12: the result is a subsequence of the list in the list's order, and for
\* an id without SkRT, TF<n> and Sk<n> it is every same-number file that does
\* not contain Reihentabelle.
C12_SubsequenceAndDefault ==
  fl_pc = "filtered" =>
    /\ relevant_svgs_for_block =
         SelectSeq(all_svg_files, LAMBDA f : f \in Listed(relevant_svgs_for_block))
    /\ (/\ ~Contains(new_id, SkRT)
        /\ tf_match(new_id) = NoneValue
        /\ sk_match(new_id) = NoneValue)
       => relevant_svgs_for_block =
            SelectSeq(all_svg_files, LAMBDA f : SameNumber(f) /\ ~Contains(f, Reihentabelle))

\* an id without marker got two different files
C12_Witness ==
  /\ fl_pc = "filtered"
  /\ ~Contains(new_id, SkRT)
  /\ tf_match(new_id) = NoneValue
  /\ sk_match(new_id) = NoneValue
  /\ Len(relevant_svgs_for_block) = 2
  /\ relevant_svgs_for_block[1] # relevant_svgs_for_block[2]

----------------------------------------------------------------------------
(* Claims about extract_moldenhauer_number (SpecExtract) *)

\* the single characters of the texts that are not digits
NonDigitChars == {"M", "x", "_", "-"}

\* where a digit run may start after an M at position i: right after M, after
\* M and one non-digit character (the x of Mx, or a separator), or after Mx
\* and one non-digit separator
DigitStarts(s, i) ==
  {d \in {i + 1, i + 2, i + 3} :
     /\ d <= Len(s) /\ s[d] \in Digits
     /\ d >= i + 2 => s[i + 1] \in NonDigitChars
     /\ d = i + 3 => (s[i + 1] = "x" /\ s[i + 2] \in NonDigitChars)}

\* the digit run of the first M<sep?><digits> or Mx<sep?><digits>, or ""
FirstMarkedNumber(s) ==
  LET starts == {i \in 1..Len(s) : s[i] = "M" /\ DigitStarts(s, i) # {}}
  IN IF starts = {} THEN <<>>
     ELSE SubSeq(s, Min(DigitStarts(s, Min(starts))),
                 DigitRunEnd(s, Min(DigitStarts(s, Min(starts)))))

\* C13: the result is the digit run of the first M<sep?><digits> or
\* Mx<sep?><digits> of the text, sep being absent or any single non-digit
\* character, and "" for a text without such a marker (None and "" included).
C13_FirstMarkedNumber ==
  fl_pc = "extracted" => current_main_number = FirstMarkedNumber(str(new_id))

----------------------------------------------------------------------------
(* Claims about display_uncertainties (SpecReport) *)

\* C15: display_uncertainties reports as many issues as there are blocks
\* whose svgGroupId is not empty, not TODO and without the prefix, plus tkk
\* elements (either order, either quote style) in the given files whose id is
\* without the prefix; it changes neither the data nor the texts. (The
\* success line is printed when, and only when, the number reported is 0.)
C15_ReportCounts ==
  [][ pc = "report"
      => /\ reports' = Append(reports, IssueCount(data, svg_objs, final_svg_cache))
         /\ data' = data
         /\ svg_objs' = svg_objs
         /\ final_svg_cache' = final_svg_cache
         /\ json_file' = json_file
         /\ svg_folder' = svg_folder
    ]_vars

\* a report over a block without the prefix, a tkk element with id before
\* class in single quotes without the prefix, and an element of another class
C15_Witness ==
  /\ pc = "save_json"
  /\ run = 0
  /\ reports # <<>>
  /\ UnchangedBlocks(data) # {}
  /\ \E n \in 1..Len(svg_objs) :
       LET text == svg_objs[n].content
       IN /\ \E i \in OrphanElements(text) : text[i + 2].k = "id" /\ text[i + 2].q = "s"
          /\ \E i \in TagStarts(text) :
               ~IsTkk(text, i) /\ \E m \in TagTokens(text, i) : text[m].k = "id"

====
